---- MODULE Spec2Model ----
(***************************************************************************)
(* State-machine model of the WFRAC device session of                      *)
(* src/drivers/wfrac/device.js: the sync cycle (sync, syncAirconStat,      *)
(* syncCapabilities, syncSettings, syncAccount), the command path          *)
(* (updateDevice) and the lifecycle/discovery/timer handlers.              *)
(*                                                                         *)
(* JavaScript runs each handler to its next network await without          *)
(* interruption; the network calls of the transport client                 *)
(* (getAirconStat, setAirconStat, updateAccountInfo, deleteAccountInfo)    *)
(* are the suspension points.  Every operation in flight occupies one slot *)
(* of ops, and its position is the await it is suspended at.               *)
(***************************************************************************)
EXTENDS Integers, Sequences, FiniteSets, TLC

VARIABLES
    phase,       \* lifecycle of the object: constructed, ready, destroyed
    available,   \* Homey availability, read by getAvailable()
    registered,  \* this.registered
    store,       \* persisted store value 'registered'
    client,      \* TRUE when this.client holds a Client
    timer,       \* TRUE when this.timer holds an interval
    accounts,    \* this.accounts
    firmware,    \* this.firmware
    airconStat,  \* this.airconStat
    contents,    \* this.contents
    warning,     \* the device warning
    capabilities, \* the capabilities the host gives the device, answered by hasCapability()
    deviceAccount, \* history: TRUE when the last successful account call was updateAccountInfo
    ops,         \* the operations in flight, one slot each
    reported,    \* history: the control state of the payload that last replaced airconStat
    ev           \* history: what the last step completed, with the setCapabilityValue
                 \* and setSettings calls it made

vars == <<phase, available, registered, store, client, timer, accounts, firmware,
          airconStat, contents, warning, capabilities, deviceAccount, ops, reported, ev>>

---------------------------------------------------------------------------
(* Bounds of the model *)

\* number of operations that may be in flight at once
MaxOps == 2
\* the largest numOfAccount a payload reports
MaxReported == 4

(* Program constants *)

\* this.accounts = null / this.accounts < 4
NullNum == -1
MaxAccounts == 4

Canonical == "WF-RAC"

Procs == 1..MaxOps

Null == [null |-> TRUE]

\* a control state that is a primitive (a string or a number) and not an object
Primitive == [primitive |-> TRUE]
NullStr == "null"
NoWarning == "none"

---------------------------------------------------------------------------
(* Values the device and the caller can supply *)

Opt(S) == {<<>>} \cup {<<v>> : v \in S}

\* The control states the device reports in full: on at air flow 2, off at air flow 0
CoreStats == {[operation |-> TRUE, airFlow |-> 2], [operation |-> FALSE, airFlow |-> 0]}

Restrict(f, D) == [k \in D |-> f[k]]

\* A control state with any of its fields left out
Stats == {Restrict([operation |-> TRUE, airFlow |-> 2], D) : D \in SUBSET {"operation", "airFlow"}}

FirmTypes == {"WF-RAC", "WF-RAC2"}
WifiVersions == {"w1"}
McuVersions == {"m1"}

BuildPayload(st, n, ft, w, m) ==
    [k \in {x \in {"airconStat"} : st # <<>>} \cup {x \in {"numOfAccount"} : n # <<>>}
           \cup {x \in {"firmType"} : ft # <<>>} \cup {x \in {"wireless"} : w # <<>>}
           \cup {x \in {"mcu"} : m # <<>>} |->
        CASE k = "airconStat" -> st[1]
          [] k = "numOfAccount" -> n[1]
          [] k = "firmType" -> ft[1]
          [] k = "wireless" -> [firmVer |-> w[1]]
          [] k = "mcu" -> [firmVer |-> m[1]]]

\* numOfAccount as reported: 0, the largest registrable count and the counts above it
ReportedCounts == {0} \cup ((MaxAccounts - 1)..MaxReported)

\* Payloads with any of their fields left out
Payloads ==
    {BuildPayload(st, n, ft, w, m) :
        st \in Opt(Stats), n \in Opt(ReportedCounts), ft \in Opt(FirmTypes),
        w \in Opt(WifiVersions), m \in Opt(McuVersions)}

\* Payloads that carry every field
CorePayloads ==
    {BuildPayload(<<st>>, <<n>>, <<ft>>, <<w>>, <<m>>) :
        st \in CoreStats, n \in (MaxAccounts - 1)..MaxAccounts, ft \in {Canonical},
        w \in WifiVersions, m \in McuVersions}

\* What a network call hands back: an exception, null, or an object
Throw == [kind |-> "throw", data |-> <<>>]
NullResult == [kind |-> "null", data |-> <<>>]
Data(d) == [kind |-> "data", data |-> d]
Results == {Throw, NullResult} \cup {Data(d) : d \in Payloads}
CoreResults == {Throw, NullResult, Data(<<>>)} \cup {Data(d) : d \in CorePayloads}

\* The patches of the capability listeners, one key each
Patches == {[operation |-> b] : b \in BOOLEAN} \cup {[airFlow |-> c] : c \in {0, 2}}

\* Control states with the vane, auto-entrust and temperature fields
FieldStats ==
    {[operation |-> TRUE, entrust |-> e, windDirectionLR |-> 1, windDirectionUD |-> 2,
      indoorTemp |-> 21, outdoorTemp |-> 9] : e \in BOOLEAN}

\* Payloads over those control states: complete ones, one without the wireless block and
\* one whose control state is a primitive
FieldPayloads ==
    {BuildPayload(<<st>>, <<n>>, <<ft>>, <<w>>, <<m>>) :
        st \in FieldStats, n \in (MaxAccounts - 1)..MaxAccounts, ft \in FirmTypes,
        w \in WifiVersions, m \in McuVersions}
    \cup {BuildPayload(<<st>>, <<MaxAccounts - 1>>, <<Canonical>>, <<>>, <<m>>) :
        st \in {x \in FieldStats : x.entrust}, m \in McuVersions}
    \cup {BuildPayload(<<Primitive>>, <<MaxAccounts - 1>>, <<Canonical>>, <<w>>, <<m>>) :
        w \in WifiVersions, m \in McuVersions}

FieldResults == {Throw, NullResult, Data(<<>>)} \cup {Data(d) : d \in FieldPayloads}

---------------------------------------------------------------------------
(* Helpers of lib/Utils and lib/Enums, which the handlers call *)

\* blank(data): null or an object without keys
Blank(r) == r.kind = "null" \/ (r.kind = "data" /\ DOMAIN r.data = {})

\* filled(v) of a string: not null and not empty
Filled(v) == v # NullStr /\ v # ""

\* AirFlow[code]: the fan-speed capability value of a device code
AirFlow == [c \in 0..4 |-> <<"auto", "lowest", "low", "high", "highest">>[c + 1]]

\* HorizontalPosition[code], VerticalPosition[code], OperationMode[code]: the capability
\* value of a device code, and the ...Names maps back from the value to the code
HorizontalPosition == [c \in 0..2 |-> <<"auto", "left", "right">>[c + 1]]

HorizontalPositionNames ==
    [n \in {HorizontalPosition[c] : c \in 0..2} |-> CHOOSE c \in 0..2 : HorizontalPosition[c] = n]

VerticalPosition == [c \in 0..2 |-> <<"auto", "highest", "lowest">>[c + 1]]

VerticalPositionNames ==
    [n \in {VerticalPosition[c] : c \in 0..2} |-> CHOOSE c \in 0..2 : VerticalPosition[c] = n]

OperationMode == [c \in 0..2 |-> <<"auto", "cool", "heat">>[c + 1]]

\* String(n) of an account count
String(n) == <<"0", "1", "2", "3", "4", "5", "6">>[n + 1]

\* if (x) of a number-or-null: null and 0 are falsy
Truthy(n) == n # NullNum /\ n # 0

Put(f, k, v) == [x \in DOMAIN f \cup {k} |-> IF x = k THEN v ELSE f[x]]

Merge(f, g) == [x \in DOMAIN f \cup DOMAIN g |-> IF x \in DOMAIN g THEN g[x] ELSE f[x]]

Without(f, k) == [x \in DOMAIN f \ {k} |-> f[x]]

\* a device with the on/off and fan-speed capabilities only
DeviceCapabilities == {"onoff", "fan_speed"}

\* every capability syncCapabilities writes
AllCapabilities ==
    {"3d_auto", "fan_speed", "horizontal_position", "measure_temperature", "onoff",
     "operating_mode", "measure_temperature.outdoor", "target_temperature", "vertical_position"}

\* the capability sets a device is given
CapabilitySets ==
    {DeviceCapabilities, AllCapabilities, AllCapabilities \ {"measure_temperature.outdoor"}}

\* hasCapability(c)
HasCapability(c) == c \in capabilities

---------------------------------------------------------------------------
(* The patches of the capability listeners *)

\* onCapabilityHorizontalPosition without the entrust field
OnCapabilityHorizontalPosition_KeepsEntrust(value) ==
    [windDirectionLR |-> HorizontalPositionNames[value]]

\* onCapabilityHorizontalPosition (lines 179-186)
OnCapabilityHorizontalPosition(value) ==
    [windDirectionLR |-> HorizontalPositionNames[value], entrust |-> FALSE]

\* onCapabilityVerticalPosition (lines 217-224)
OnCapabilityVerticalPosition(value) ==
    [windDirectionUD |-> VerticalPositionNames[value], entrust |-> FALSE]

\* onCapability3dAuto (lines 189-193)
OnCapability3dAuto(value) == [entrust |-> value]

\* the patches of a vane-position change
VanePatches ==
    {OnCapabilityHorizontalPosition(v) : v \in {"left", "right"}}
    \cup {OnCapabilityVerticalPosition(v) : v \in {"highest"}}

\* the patches the listeners hand to queue()
ListenerPatches == VanePatches \cup {OnCapability3dAuto(TRUE)}

---------------------------------------------------------------------------
(* The session as one record, so that the steps of a handler compose.      *)
(* threw, call and acct are the handler's control flow, caps and settings   *)
(* the setCapabilityValue and setSettings calls it has made so far.        *)

NoAcct == [ran |-> FALSE, available |-> FALSE, registered |-> FALSE, accounts |-> NullNum]

Session ==
    [available |-> available, registered |-> registered, store |-> store,
     accounts |-> accounts, firmware |-> firmware, airconStat |-> airconStat,
     contents |-> contents, warning |-> warning, reported |-> reported,
     caps |-> <<>>, settings |-> <<>>,
     threw |-> "none", call |-> FALSE, acct |-> NoAcct]

\* syncAirconStat without setAvailable
SyncAirconStatData_NoSetAvailable(s, r) ==
    IF Blank(r) THEN s
    ELSE LET d == r.data IN
         [s EXCEPT !.airconStat = IF "airconStat" \in DOMAIN d THEN d.airconStat ELSE Null,
                   !.contents = Without(d, "airconStat"),
                   !.accounts = IF "numOfAccount" \in DOMAIN d THEN d.numOfAccount ELSE NullNum,
                   !.firmware = IF "firmType" \in DOMAIN d THEN d.firmType ELSE NullStr,
                   !.reported = IF "airconStat" \in DOMAIN d THEN d.airconStat ELSE Null]

\* syncAirconStat after data is at hand (lines 54-70)
SyncAirconStatData(s, r) ==
    IF Blank(r) THEN s
    ELSE LET d == r.data IN
         [s EXCEPT !.available = TRUE,
                   !.airconStat = IF "airconStat" \in DOMAIN d THEN d.airconStat ELSE Null,
                   !.contents = Without(d, "airconStat"),
                   !.accounts = IF "numOfAccount" \in DOMAIN d THEN d.numOfAccount ELSE NullNum,
                   !.firmware = IF "firmType" \in DOMAIN d THEN d.firmType ELSE NullStr,
                   !.reported = IF "airconStat" \in DOMAIN d THEN d.airconStat ELSE Null]

\* The nine writes of syncCapabilities (lines 79-122): the control-state field read, the
\* capability hasCapability is asked about, and the capability setCapabilityValue writes
CapabilityTable ==
    {[field |-> "entrust", guard |-> "3d_auto", cap |-> "3d_auto"],
     [field |-> "airFlow", guard |-> "fan_speed", cap |-> "fan_speed"],
     [field |-> "windDirectionLR", guard |-> "horizontal_position", cap |-> "horizontal_position"],
     [field |-> "indoorTemp", guard |-> "measure_temperature", cap |-> "measure_temperature"],
     [field |-> "operation", guard |-> "onoff", cap |-> "onoff"],
     [field |-> "operationMode", guard |-> "operating_mode", cap |-> "operating_mode"],
     [field |-> "outdoorTemp", guard |-> "measure_temperature",
      cap |-> "measure_temperature.outdoor"],
     [field |-> "presetTemp", guard |-> "target_temperature", cap |-> "target_temperature"],
     [field |-> "windDirectionUD", guard |-> "vertical_position", cap |-> "vertical_position"]}

\* the value written for a field: the enumerated fields go through their map
MappedValue(field, v) ==
    CASE field = "airFlow" -> AirFlow[v]
      [] field = "windDirectionLR" -> HorizontalPosition[v]
      [] field = "operationMode" -> OperationMode[v]
      [] field = "windDirectionUD" -> VerticalPosition[v]
      [] OTHER -> v

\* syncCapabilities (lines 74-125); the 'in' test of line 80 throws a TypeError when the
\* control state is a primitive.  Each capability is written by one row of the table.
SyncCapabilities(s) ==
    IF s.airconStat = Null THEN s
    ELSE IF s.airconStat = Primitive THEN [s EXCEPT !.threw = "capabilities"]
    ELSE LET stat == s.airconStat
             rows == {e \in CapabilityTable : e.field \in DOMAIN stat /\ HasCapability(e.guard)}
             row(c) == CHOOSE e \in rows : e.cap = c
         IN [s EXCEPT !.caps =
                [c \in DOMAIN s.caps \cup {e.cap : e \in rows} |->
                    IF c \in {e.cap : e \in rows}
                    THEN MappedValue(row(c).field, stat[row(c).field])
                    ELSE s.caps[c]]]

\* setFirmwareWarning (lines 286-296): TRUE when it raises the warning
SetFirmwareWarning(s) == s.firmware # NullStr /\ s.firmware # "" /\ s.firmware # Canonical

\* syncSettings without the unsetWarning of line 164
SyncSettings_KeepsWarning(s) ==
    IF s.contents = Null THEN s
    ELSE IF "wireless" \notin DOMAIN s.contents \/ "mcu" \notin DOMAIN s.contents
    THEN [s EXCEPT !.threw = "settings"]
    ELSE LET n1 == IF Truthy(s.accounts) THEN Put(<<>>, "accounts", String(s.accounts)) ELSE <<>>
             n2 == IF Filled(s.firmware) THEN Put(n1, "firmware_type", s.firmware) ELSE n1
             n3 == IF Filled(s.contents.wireless.firmVer)
                   THEN Put(n2, "wifi_firmware", s.contents.wireless.firmVer) ELSE n2
             n4 == IF Filled(s.contents.mcu.firmVer)
                   THEN Put(n3, "mcu_firmware", s.contents.mcu.firmVer) ELSE n3
             s1 == IF DOMAIN n4 # {} THEN [s EXCEPT !.settings = Merge(s.settings, n4)] ELSE s
         IN IF SetFirmwareWarning(s1)
            THEN [s1 EXCEPT !.warning = "warning.firmware"]
            ELSE s1

\* syncSettings (lines 128-165)
SyncSettings(s) ==
    IF s.contents = Null THEN s
    ELSE IF "wireless" \notin DOMAIN s.contents \/ "mcu" \notin DOMAIN s.contents
    THEN [s EXCEPT !.threw = "settings"]
    ELSE LET n1 == IF Truthy(s.accounts) THEN Put(<<>>, "accounts", String(s.accounts)) ELSE <<>>
             n2 == IF Filled(s.firmware) THEN Put(n1, "firmware_type", s.firmware) ELSE n1
             n3 == IF Filled(s.contents.wireless.firmVer)
                   THEN Put(n2, "wifi_firmware", s.contents.wireless.firmVer) ELSE n2
             n4 == IF Filled(s.contents.mcu.firmVer)
                   THEN Put(n3, "mcu_firmware", s.contents.mcu.firmVer) ELSE n3
             s1 == IF DOMAIN n4 # {} THEN [s EXCEPT !.settings = Merge(s.settings, n4)] ELSE s
         IN IF SetFirmwareWarning(s1)
            THEN [s1 EXCEPT !.warning = "warning.firmware"]
            ELSE [s1 EXCEPT !.warning = NoWarning]

\* getAccountWarning with the too-many-accounts bound off by one
GetAccountWarning_OffByOne(s) ==
    IF s.registered THEN NoWarning
    ELSE IF ~Truthy(s.accounts) THEN NoWarning
    ELSE IF s.accounts > 4 THEN "warning.accounts"
    ELSE "warning.unregistered"

\* getAccountWarning (lines 272-283)
GetAccountWarning(s) ==
    IF s.registered THEN NoWarning
    ELSE IF ~Truthy(s.accounts) THEN NoWarning
    ELSE IF s.accounts > 3 THEN "warning.accounts"
    ELSE "warning.unregistered"

\* syncAccount from the account warning on (lines 35-45)
AccountWarning(s) == [s EXCEPT !.warning = GetAccountWarning(s)]

\* setRegistered(value) (lines 461-474)
SetRegistered(s, value) == [s EXCEPT !.store = value, !.registered = value]

\* syncAccount without its registered check
SyncAccount_IgnoresRegistered(s) ==
    LET t == [s EXCEPT !.acct = [ran |-> TRUE, available |-> s.available,
                                 registered |-> s.registered, accounts |-> s.accounts]]
    IN IF ~t.available THEN t
       ELSE IF ~Truthy(t.accounts) THEN t
       ELSE IF t.accounts < MaxAccounts
       THEN IF ~client THEN [t EXCEPT !.threw = "register"]
            ELSE [t EXCEPT !.call = TRUE]
       ELSE AccountWarning(t)

\* syncAccount up to the await of registerAccount (lines 19-33, 252-259);
\* call is TRUE when updateAccountInfo has been called
SyncAccount(s) ==
    LET t == [s EXCEPT !.acct = [ran |-> TRUE, available |-> s.available,
                                 registered |-> s.registered, accounts |-> s.accounts]]
    IN IF t.registered THEN t
       ELSE IF ~t.available THEN t
       ELSE IF ~Truthy(t.accounts) THEN t
       ELSE IF t.accounts < MaxAccounts
       THEN IF ~t.available THEN AccountWarning(t)
            ELSE IF ~client THEN [t EXCEPT !.threw = "register"]
            ELSE [t EXCEPT !.call = TRUE]
       ELSE AccountWarning(t)

\* the catch of sync without setUnavailable
SyncCatch_KeepsAvailable(s) == s

\* the catch of sync (lines 369-374)
SyncCatch(s) == IF s.threw # "none" THEN [s EXCEPT !.available = FALSE] ELSE s

\* sync once its data is at hand (lines 363-374)
SyncData(s, r) ==
    LET s2 == SyncCapabilities(SyncAirconStatData(s, r))
        s3 == IF s2.threw # "none" THEN s2 ELSE SyncSettings(s2)
    IN IF s3.threw # "none" THEN SyncCatch(s3) ELSE SyncCatch(SyncAccount(s3))

---------------------------------------------------------------------------
(* Operations in flight *)

NoPre == [available |-> FALSE, registered |-> FALSE, warning |-> NoWarning]

Idle == [pc |-> "idle", patch |-> <<>>, sent |-> <<>>, fetched |-> NullResult, base |-> Null,
         data |-> NullResult, reg |-> 0, upd |-> FALSE, acct |-> NoAcct, pre |-> NoPre,
         caps |-> <<>>, settings |-> <<>>]

InFlight == {p \in Procs : ops[p].pc # "idle"}

NoEv == [kind |-> "none"]

\* A sync cycle has run its steps over r and awaits updateAccountInfo (sync_mid), has
\* ended in the same step (sync_done), or has ended after the await (sync_reg_done).
\* pre: availability and registration when the steps began; reg: registration calls made
SyncEv(kind, r, s, pre, reg, upd) ==
    [kind |-> kind, data |-> r, threw |-> s.threw, acct |-> s.acct, pre |-> pre, reg |-> reg,
     upd |-> upd, caps |-> s.caps, settings |-> s.settings]

Pre == [available |-> available, registered |-> registered, warning |-> warning]

\* updateDevice has gone on to its fetch (pending) or has settled without reaching sync;
\* at: the step that decided it (0 the invocation, 1 the fetch, 2 the send), which is also
\* the number of network calls before it; available, registered, before: the state it met
\* cause: what settled it (unavailable, unregistered, a failed fetch, a merge into no
\* object, a cleared client, a failed send), none when pending
UpdateEv(outcome, patch, at, cause) ==
    [kind |-> "update", outcome |-> outcome, patch |-> patch, at |-> at, cause |-> cause,
     calls |-> IF outcome = "pending" THEN at + 1 ELSE at,
     available |-> available, registered |-> registered, before |-> airconStat]

Commit(s) ==
    /\ available' = s.available
    /\ registered' = s.registered
    /\ store' = s.store
    /\ accounts' = s.accounts
    /\ firmware' = s.firmware
    /\ airconStat' = s.airconStat
    /\ contents' = s.contents
    /\ warning' = s.warning
    /\ reported' = s.reported

\* the object as constructed, before the host has said which capabilities it has
InitSession ==
    /\ phase = "constructed"
    /\ available = TRUE
    /\ registered = FALSE
    /\ store \in BOOLEAN
    /\ client = FALSE
    /\ timer = FALSE
    /\ accounts = NullNum
    /\ firmware = NullStr
    /\ airconStat = Null
    /\ contents = Null
    /\ warning = NoWarning
    /\ ops = [p \in Procs |-> Idle]
    /\ reported = Null
    /\ ev = NoEv
    /\ deviceAccount = store

Init == InitSession /\ capabilities = DeviceCapabilities

\* the same, for a device with any of the capability sets
InitFields == InitSession /\ capabilities \in CapabilitySets

\* onInit (lines 322-340)
OnInit ==
    /\ phase = "constructed"
    /\ phase' = "ready"
    /\ available' = FALSE
    /\ registered' = store
    /\ client' = TRUE
    /\ accounts' = NullNum
    /\ firmware' = NullStr
    /\ ev' = NoEv
    /\ UNCHANGED <<store, timer, airconStat, contents, warning, capabilities, deviceAccount,
                   ops, reported>>

\* sync() entered without data: syncAirconStat calls getAirconStat (lines 359-363, 49-52)
BeginSync(p, s, upd) ==
    IF client
    THEN /\ Commit(s)
         /\ ops' = [ops EXCEPT ![p] = [Idle EXCEPT !.pc = "fetch", !.upd = upd]]
         /\ ev' = NoEv
    ELSE /\ Commit(SyncCatch([s EXCEPT !.threw = "fetch"]))
         /\ ops' = [ops EXCEPT ![p] = Idle]
         /\ ev' = SyncEv("sync_done", Throw, [s EXCEPT !.threw = "fetch"], Pre, 0, upd)

\* sync with its data at hand, up to its end or to the await of updateAccountInfo
RunSync(p, r, upd) ==
    LET s == SyncData(Session, r) IN
    /\ Commit(s)
    /\ IF s.call
       THEN /\ ops' = [ops EXCEPT ![p] = [Idle EXCEPT !.pc = "register", !.data = r,
                                !.reg = 1, !.upd = upd, !.acct = s.acct, !.pre = Pre,
                                !.caps = s.caps, !.settings = s.settings]]
            /\ ev' = SyncEv("sync_mid", r, s, Pre, 1, upd)
       ELSE /\ ops' = [ops EXCEPT ![p] = Idle]
            /\ ev' = SyncEv("sync_done", r, s, Pre, 0, upd)

\* The interval of startTimer fires: sync() (lines 515-521, 359)
TimerTick(p) ==
    /\ timer
    /\ ops[p].pc = "idle"
    /\ BeginSync(p, Session, FALSE)
    /\ UNCHANGED <<phase, client, timer, capabilities, deviceAccount>>

\* onDiscoveryAvailable (lines 425-441); it returns at once when the device is available
OnDiscoveryAvailable(p) ==
    /\ phase = "ready"
    /\ ~available
    /\ ops[p].pc = "idle"
    /\ timer' = TRUE
    /\ BeginSync(p, [Session EXCEPT !.available = TRUE], FALSE)
    /\ UNCHANGED <<phase, client, capabilities, deviceAccount>>

\* getAirconStat of a sync settles (lines 51-71, 364-374)
SyncFetchReturn(p, r) ==
    /\ ops[p].pc = "fetch"
    /\ IF r = Throw
       THEN /\ Commit(SyncCatch([Session EXCEPT !.threw = "fetch"]))
            /\ ops' = [ops EXCEPT ![p] = Idle]
            /\ ev' = SyncEv("sync_done", r, [Session EXCEPT !.threw = "fetch"], Pre, 0, ops[p].upd)
       ELSE RunSync(p, r, ops[p].upd)
    /\ UNCHANGED <<phase, client, timer, capabilities, deviceAccount>>

\* updateAccountInfo settles (lines 259-264, 35-40, 369-374)
SyncRegisterReturn(p, ok) ==
    /\ ops[p].pc = "register"
    /\ LET s == IF ok THEN AccountWarning(SetRegistered(Session, TRUE))
                ELSE SyncCatch([Session EXCEPT !.threw = "register"])
       IN /\ Commit(s)
          /\ ev' = SyncEv("sync_reg_done", ops[p].data,
                          [s EXCEPT !.acct = ops[p].acct, !.caps = ops[p].caps,
                                    !.settings = ops[p].settings],
                          ops[p].pre, ops[p].reg, ops[p].upd)
    /\ ops' = [ops EXCEPT ![p] = Idle]
    /\ deviceAccount' = (ok \/ deviceAccount)
    /\ UNCHANGED <<phase, client, timer, capabilities>>

\* updateDevice up to its first await (lines 378-393)
UpdateDevice(p, patch) ==
    /\ phase = "ready"
    /\ ops[p].pc = "idle"
    /\ IF ~available
       THEN /\ ev' = UpdateEv("resolved", patch, 0, "unavailable")
            /\ UNCHANGED ops
       ELSE IF ~registered \/ ~client
       THEN /\ ev' = UpdateEv("rejected", patch, 0, "unregistered")
            /\ UNCHANGED ops
       ELSE /\ ev' = UpdateEv("pending", patch, 0, "none")
            /\ ops' = [ops EXCEPT ![p] = [Idle EXCEPT !.pc = "ufetch", !.patch = patch]]
    /\ UNCHANGED <<phase, available, registered, store, client, timer, accounts, firmware,
                   airconStat, contents, warning, capabilities, deviceAccount, reported>>

\* the merge of updateDevice with the fetched state winning over the patch
SetProperties_FetchedWins(s, patch) ==
    [s EXCEPT !.airconStat = Merge(patch, s.airconStat)]

\* the merge of updateDevice (lines 395-399)
SetProperties(s, patch) ==
    [s EXCEPT !.airconStat = Merge(s.airconStat, patch)]

\* getAirconStat of updateDevice settles: merge and send (lines 393-403, 408-413)
UpdateFetchReturn(p, r) ==
    /\ ops[p].pc = "ufetch"
    /\ IF r = Throw
       THEN /\ ev' = UpdateEv("rejected", ops[p].patch, 1, "fetch")
            /\ ops' = [ops EXCEPT ![p] = Idle]
            /\ Commit(Session)
       ELSE LET s1 == SyncAirconStatData(Session, r) IN
            IF s1.airconStat \in {Null, Primitive}
            THEN /\ ev' = UpdateEv("rejected", ops[p].patch, 1, "merge")
                 /\ ops' = [ops EXCEPT ![p] = Idle]
                 /\ Commit(s1)
            ELSE LET s2 == SetProperties(s1, ops[p].patch) IN
                 /\ Commit(s2)
                 /\ IF client
                    THEN /\ ev' = NoEv
                         /\ ops' = [ops EXCEPT ![p] = [@ EXCEPT !.pc = "send",
                                        !.sent = s2.airconStat, !.fetched = r,
                                        !.base = s1.airconStat]]
                    ELSE /\ ev' = UpdateEv("rejected", ops[p].patch, 1, "client")
                         /\ ops' = [ops EXCEPT ![p] = Idle]
    /\ UNCHANGED <<phase, client, timer, capabilities, deviceAccount>>

\* setAirconStat settles: sync(result) (lines 403-413)
UpdateSendReturn(p, r) ==
    /\ ops[p].pc = "send"
    /\ IF r = Throw
       THEN /\ ev' = UpdateEv("rejected", ops[p].patch, 2, "send")
            /\ ops' = [ops EXCEPT ![p] = Idle]
            /\ Commit(Session)
       ELSE IF r = NullResult
       THEN BeginSync(p, Session, TRUE)
       ELSE RunSync(p, r, TRUE)
    /\ UNCHANGED <<phase, client, timer, capabilities, deviceAccount>>

\* the clearing of onUninit (lines 347-350)
ClearVariables ==
    /\ client' = FALSE
    /\ contents' = Null
    /\ airconStat' = Null
    /\ reported' = Null

\* onUninit up to the await of deleteAccount (lines 343-350, 231-240)
OnUninit(p) ==
    /\ phase = "ready"
    /\ ops[p].pc = "idle"
    /\ phase' = "destroyed"
    /\ ev' = NoEv
    /\ IF ~registered \/ ~client
       THEN /\ ClearVariables
            /\ UNCHANGED ops
       ELSE /\ ops' = [ops EXCEPT ![p] = [Idle EXCEPT !.pc = "delete"]]
            /\ UNCHANGED <<client, contents, airconStat, reported>>
    /\ UNCHANGED <<available, registered, store, timer, accounts, firmware, warning,
                   capabilities, deviceAccount>>

\* deleteAccountInfo settles (lines 240-248, 347-352)
UninitReturn(p, ok) ==
    /\ ops[p].pc = "delete"
    /\ ops' = [ops EXCEPT ![p] = Idle]
    /\ ev' = NoEv
    /\ IF ok THEN ClearVariables ELSE UNCHANGED <<client, contents, airconStat, reported>>
    /\ deviceAccount' = (~ok /\ deviceAccount)
    /\ UNCHANGED <<phase, available, registered, store, timer, accounts, firmware, warning,
                   capabilities>>

\* queue(patch) of the capability listeners: the command dispatcher applies the patch
Queue(p, patch) == UpdateDevice(p, patch)

\* onDeleted (lines 314-319) with stopTimer (lines 524-531)
OnDeleted ==
    /\ phase \in {"ready", "destroyed"}
    /\ timer' = FALSE
    /\ ev' = NoEv
    /\ UNCHANGED <<phase, available, registered, store, client, accounts, firmware,
                   airconStat, contents, warning, capabilities, deviceAccount, ops, reported>>

\* the host constructs the device object anew after a teardown: the fields of the object
\* start empty, the persisted store, the availability and the warning are the host's
Restart ==
    /\ phase = "destroyed"
    /\ InFlight = {}
    /\ phase' = "constructed"
    /\ registered' = FALSE
    /\ client' = FALSE
    /\ timer' = FALSE
    /\ accounts' = NullNum
    /\ firmware' = NullStr
    /\ airconStat' = Null
    /\ contents' = Null
    /\ reported' = Null
    /\ ev' = NoEv
    /\ UNCHANGED <<available, store, warning, capabilities, deviceAccount, ops>>

\* Every interleaving of up to MaxOps operations, over the core results
Next ==
    \/ OnInit
    \/ \E p \in Procs : TimerTick(p)
    \/ \E p \in Procs : OnDiscoveryAvailable(p)
    \/ \E p \in Procs, r \in CoreResults : SyncFetchReturn(p, r)
    \/ \E p \in Procs, ok \in BOOLEAN : SyncRegisterReturn(p, ok)
    \/ \E p \in Procs, patch \in Patches : UpdateDevice(p, patch)
    \/ \E p \in Procs, r \in CoreResults : UpdateFetchReturn(p, r)
    \/ \E p \in Procs, r \in CoreResults : UpdateSendReturn(p, r)
    \/ \E p \in Procs : OnUninit(p)
    \/ \E p \in Procs, ok \in BOOLEAN : UninitReturn(p, ok)

Spec == Init /\ [][Next]_vars

\* One operation at a time; a sync's fetch returns any result
NextSerial ==
    \/ OnInit
    \/ TimerTick(1)
    \/ OnDiscoveryAvailable(1)
    \/ \E r \in Results : SyncFetchReturn(1, r)
    \/ \E ok \in BOOLEAN : SyncRegisterReturn(1, ok)
    \/ \E patch \in Patches : UpdateDevice(1, patch)
    \/ \E r \in CoreResults : UpdateFetchReturn(1, r)
    \/ \E r \in CoreResults : UpdateSendReturn(1, r)
    \/ OnUninit(1)
    \/ \E ok \in BOOLEAN : UninitReturn(1, ok)

SpecSerial == Init /\ [][NextSerial]_vars

\* One operation at a time over the payloads with vane and temperature fields, the
\* commands of the capability listeners, and the whole life of the device: deletion,
\* teardown and a new session
NextFields ==
    \/ OnInit
    \/ TimerTick(1)
    \/ OnDiscoveryAvailable(1)
    \/ \E r \in FieldResults : SyncFetchReturn(1, r)
    \/ \E ok \in BOOLEAN : SyncRegisterReturn(1, ok)
    \/ \E patch \in ListenerPatches : Queue(1, patch)
    \/ \E r \in FieldResults : UpdateFetchReturn(1, r)
    \/ \E r \in FieldResults : UpdateSendReturn(1, r)
    \/ OnUninit(1)
    \/ \E ok \in BOOLEAN : UninitReturn(1, ok)
    \/ OnDeleted
    \/ Restart

SpecFields == InitFields /\ [][NextFields]_vars

---------------------------------------------------------------------------
(* Events the claims speak of *)

\* a sync cycle has just ended
CycleEnd == ev.kind \in {"sync_done", "sync_reg_done"}

\* a sync cycle has just run its steps over a result
Processed == ev.kind \in {"sync_done", "sync_mid"}

\* the cycle's result is a payload with at least one field
NonBlank == ev.data.kind = "data" /\ DOMAIN ev.data.data # {}

\* the keys at which airconStat holds a value that no device payload put there
LocalKeys ==
    IF airconStat = Null THEN {}
    ELSE {k \in DOMAIN airconStat :
            reported = Null \/ k \notin DOMAIN reported \/ reported[k] # airconStat[k]}

\* the updateDevice calls that have not settled
UpdateRunning == {p \in Procs : ops[p].pc \in {"ufetch", "send"} \/ ops[p].upd}

\* the sync and updateDevice operations suspended at a network call
Suspended == {p \in Procs : ops[p].pc \in {"fetch", "register", "ufetch", "send"}}

---------------------------------------------------------------------------
(* C1: no two sync/command operations are in flight at the same time: a   *)
(* sync or updateDevice never starts while another one is suspended at a  *)
(* network call of the same session.                                      *)
C1_OneInFlight == Cardinality(Suspended) <= 1

(* C2: once updateDevice has finished, controlState holds no locally      *)
(* merged value: whatever a merge wrote has been replaced by the device's *)
(* response.  Stated for the updateDevice that has just finished with an  *)
(* error while no other one is running.                                   *)
C2_MergeReplaced ==
    (ev.kind = "update" /\ ev.outcome = "rejected" /\ UpdateRunning = {}) => LocalKeys = {}

(* C3: a cycle over a payload whose firmType is present and not 'WF-RAC'  *)
(* ends with the firmware warning as the device's warning; the account    *)
(* step neither replaces nor clears it.  Stated for payloads that carry   *)
(* the wireless and mcu blocks, so that the settings step reaches the     *)
(* firmware check.                                                        *)
UnsupportedFirmware(d) == "firmType" \in DOMAIN d /\ d.firmType # Canonical

C3_FirmwareWarningStays ==
    (CycleEnd /\ NonBlank /\ UnsupportedFirmware(ev.data.data)
        /\ {"wireless", "mcu"} \subseteq DOMAIN ev.data.data)
    => warning = "warning.firmware"

(* C4: a cycle over a non-blank payload makes no setCapabilityValue or    *)
(* setSettings call for a field the payload omits, and an omission has no *)
(* other effect: no step throws, the account step runs and the device is  *)
(* available.                                                             *)
CapOf(k) == IF k = "operation" THEN "onoff" ELSE "fan_speed"

CapValue(k, v) == IF k = "airFlow" THEN AirFlow[v] ELSE v

StatOf(d) == IF "airconStat" \in DOMAIN d THEN d.airconStat ELSE <<>>

SettingOf(k) ==
    CASE k = "numOfAccount" -> "accounts"
      [] k = "firmType" -> "firmware_type"
      [] k = "wireless" -> "wifi_firmware"
      [] k = "mcu" -> "mcu_firmware"

C4_OmittedFieldsLeftAlone ==
    (Processed /\ NonBlank) =>
        LET d == ev.data.data IN
        /\ \A k \in {"operation", "airFlow"} \ DOMAIN StatOf(d) : CapOf(k) \notin DOMAIN ev.caps
        /\ \A k \in {"numOfAccount", "firmType", "wireless", "mcu"} \ DOMAIN d :
              SettingOf(k) \notin DOMAIN ev.settings
        /\ ev.threw = "none"
        /\ ev.acct.ran
        /\ available

(* C5: on an available, unregistered device a cycle over a payload that   *)
(* carries only a control state, numOfAccount in 1..3 and firmType        *)
(* 'WF-RAC' ends, unless the registration call itself fails, with every   *)
(* present field's capability set to its mapped value, one registration   *)
(* call made, registered = true, no warning and the device available.     *)
ScenarioPayload(d) ==
    /\ DOMAIN d = {"airconStat", "numOfAccount", "firmType"}
    /\ d.numOfAccount \in 1..3
    /\ d.firmType = Canonical

C5_Scenario ==
    (CycleEnd /\ NonBlank /\ ScenarioPayload(ev.data.data)
        /\ ev.pre.available /\ ~ev.pre.registered /\ ev.threw # "register")
    => /\ \A k \in DOMAIN ev.data.data.airconStat :
            /\ CapOf(k) \in DOMAIN ev.caps
            /\ ev.caps[CapOf(k)] = CapValue(k, ev.data.data.airconStat[k])
       /\ ev.reg = 1
       /\ registered
       /\ warning = NoWarning
       /\ available

(* C6 as claimed: whenever the account step runs with accountCount > 3,   *)
(* no registration call is made in that cycle and the warning at the end  *)
(* of the cycle is the too-many-accounts warning.                         *)
C6_Claimed ==
    (CycleEnd /\ ev.acct.ran /\ ev.acct.accounts > 3)
    => (ev.reg = 0 /\ warning = "warning.accounts")

(* C6 as amended: whenever the account step runs with accountCount > 3,   *)
(* no registration call is made in that cycle, and when the device is     *)
(* available and unregistered at that step the warning at the end of the  *)
(* cycle is the too-many-accounts warning.                                *)
C6_TooManyAccounts ==
    (CycleEnd /\ ev.acct.ran /\ ev.acct.accounts > 3)
    => /\ ev.reg = 0
       /\ (ev.acct.available /\ ~ev.acct.registered) => warning = "warning.accounts"

C6_Witness ==
    /\ CycleEnd /\ ev.acct.ran /\ ev.acct.accounts > 3
    /\ ev.acct.available /\ ~ev.acct.registered
    /\ ev.reg = 0 /\ warning = "warning.accounts"

\* the account step ran on an available, unregistered device with accountCount in 1..3
Registrable == ev.acct.ran /\ ev.acct.available /\ ~ev.acct.registered /\ ev.acct.accounts \in 1..3

(* C7 as claimed: whenever the account step runs on an available,         *)
(* unregistered device with accountCount in 1..3, exactly one             *)
(* registration call is made in that cycle, and no cycle makes a          *)
(* registration call once registered is true.                             *)
C7_Claimed ==
    /\ (CycleEnd /\ Registrable) => ev.reg = 1
    /\ ev.kind = "sync_mid" => ~registered

(* C7 as amended: whenever the account step runs on an available,         *)
(* unregistered device with accountCount in 1..3 while the session still  *)
(* has its client, exactly one registration call is made in that cycle;   *)
(* once teardown has cleared the client the step throws before the call   *)
(* and the cycle makes none.  No cycle makes more than one call, and none *)
(* makes a call once registered is true.                                  *)
C7_RegistersOnce ==
    /\ (CycleEnd /\ Registrable) =>
          \/ ev.reg = 1
          \/ ev.reg = 0 /\ ev.threw = "register" /\ ~client /\ ~available
    /\ CycleEnd => ev.reg <= 1
    /\ ev.kind = "sync_mid" => (~registered /\ client /\ ev.reg = 1 /\ Registrable)

C7_Witness ==
    /\ ev.kind = "sync_reg_done" /\ Registrable
    /\ ev.reg = 1 /\ registered /\ ev.threw = "none"

(* C8: on an available, unregistered device every cycle whose payload     *)
(* reports a number of accounts below 4 (0, 1, 2 or 3) makes a            *)
(* registration call.  Stated for payloads that carry the wireless and    *)
(* mcu blocks, so that the cycle reaches the account step.                *)
C8_RegistersBelowMax ==
    (Processed /\ NonBlank /\ ev.pre.available /\ ~ev.pre.registered
        /\ {"numOfAccount", "wireless", "mcu"} \subseteq DOMAIN ev.data.data
        /\ ev.data.data.numOfAccount < MaxAccounts)
    => ev.reg = 1

(* C9: updateDevice invoked on an unavailable or unregistered device is   *)
(* rejected at once, makes no network call and leaves controlState as it  *)
(* was.                                                                   *)
C9_FailsFast ==
    (ev.kind = "update" /\ ev.at = 0 /\ (~ev.available \/ ~ev.registered))
    => (ev.outcome = "rejected" /\ ev.calls = 0 /\ airconStat = ev.before)

\* the state sent has the patch's value at every key of the patch
PatchWins(o) == \A k \in DOMAIN o.patch : k \in DOMAIN o.sent /\ o.sent[k] = o.patch[k]

\* the state sent has stat's value at every key outside the patch
RestFrom(o, stat) ==
    /\ stat # Null
    /\ DOMAIN o.sent = DOMAIN stat \cup DOMAIN o.patch
    /\ \A k \in DOMAIN o.sent \ DOMAIN o.patch : o.sent[k] = stat[k]

\* the control state of a fetch result, Null when it has none
FetchedStat(r) ==
    IF r.kind = "data" /\ "airconStat" \in DOMAIN r.data THEN r.data.airconStat ELSE Null

(* C10 as claimed: the state updateDevice sends has the patch's value at  *)
(* every key of the patch and, at every other key, the value of the       *)
(* control state fetched by that same updateDevice.                       *)
C10_Claimed ==
    \A p \in Procs : ops[p].pc = "send" =>
        PatchWins(ops[p]) /\ RestFrom(ops[p], FetchedStat(ops[p].fetched))

(* C10 as amended: the state updateDevice sends has the patch's value at  *)
(* every key of the patch and, at every other key, the value of the       *)
(* control state fetched by that same updateDevice when its fetch         *)
(* returned a payload, and the value controlState held when a blank fetch *)
(* returned.                                                              *)
C10_PatchPrecedence ==
    \A p \in Procs : ops[p].pc = "send" =>
        /\ PatchWins(ops[p])
        /\ IF Blank(ops[p].fetched)
           THEN RestFrom(ops[p], ops[p].base)
           ELSE RestFrom(ops[p], FetchedStat(ops[p].fetched))

\* a send is pending whose patch overrides the fetched value, while another operation
\* has since replaced controlState
C10_Witness ==
    \E p \in Procs :
        /\ ops[p].pc = "send"
        /\ ~Blank(ops[p].fetched)
        /\ \E k \in DOMAIN ops[p].patch : FetchedStat(ops[p].fetched)[k] # ops[p].patch[k]
        /\ airconStat # ops[p].sent
        /\ PatchWins(ops[p])

(* C11: every patch of a vane-position change (horizontal or vertical)    *)
(* carries entrust = false, and the state updateDevice sends for such a    *)
(* patch has entrust = false whatever the fetched control state held.      *)
C11_VaneClearsEntrust ==
    /\ \A patch \in VanePatches : "entrust" \in DOMAIN patch /\ patch.entrust = FALSE
    /\ \A p \in Procs :
          (ops[p].pc = "send" /\ ops[p].patch \in VanePatches)
          => ("entrust" \in DOMAIN ops[p].sent /\ ops[p].sent.entrust = FALSE)

\* a vane-position command is being sent whose fetched control state had entrust = true
C11_Witness ==
    \E p \in Procs :
        /\ ops[p].pc = "send"
        /\ ops[p].patch \in VanePatches
        /\ ops[p].base # Null /\ "entrust" \in DOMAIN ops[p].base /\ ops[p].base.entrust = TRUE
        /\ ops[p].sent.entrust = FALSE

\* a sync cycle has just ended in its catch
CycleFailed == CycleEnd /\ ev.threw # "none"

(* C12: an exception raised by any step of a sync cycle (fetch, capability *)
(* mapping, settings update, account registration) is caught by sync: the  *)
(* operation ends there without rejecting, the device is unavailable, and  *)
(* no step after the failing one has run: none of its setCapabilityValue,  *)
(* setSettings or warning calls was made, no account step after a failure  *)
(* before it, and no registered flag or account warning after a failed     *)
(* registration.                                                           *)
C12_SyncCatches ==
    CycleFailed =>
        /\ ~available
        /\ InFlight = {}
        /\ ev.threw \in {"fetch", "capabilities"} => (ev.caps = <<>> /\ ev.settings = <<>>)
        /\ ev.threw \in {"fetch", "capabilities", "settings"} =>
              (ev.settings = <<>> /\ ~ev.acct.ran /\ ev.reg = 0 /\ warning = ev.pre.warning
               /\ registered = ev.pre.registered)
        /\ ev.threw = "register" =>
              (ev.acct.ran /\ ~registered /\ ~store
               /\ warning \notin {"warning.accounts", "warning.unregistered"})

\* a cycle whose capability mapping threw has ended
C12_Witness ==
    /\ CycleFailed /\ ev.threw = "capabilities"
    /\ ~available /\ ~ev.acct.ran /\ ev.settings = <<>>

(* C13: every failed network fetch (getAirconStat) or send                *)
(* (setAirconStat), in a sync started by the timer or by discovery as well *)
(* as inside updateDevice, leaves the device unavailable.                  *)
C13_FailureUnavailable ==
    /\ (CycleEnd /\ ev.threw = "fetch" /\ ev.data = Throw) => ~available
    /\ (ev.kind = "update" /\ ev.outcome = "rejected" /\ ev.cause \in {"fetch", "send"})
          => ~available

\* a cycle started by the timer on an unavailable device has run over a payload
TickOverPayload == Processed /\ NonBlank /\ ~ev.upd /\ ~ev.pre.available

\* this step ends a sync cycle in its catch
FailingStep ==
    /\ ev'.kind \in {"sync_done", "sync_reg_done"}
    /\ ev'.threw # "none"
    /\ (ev' # ev \/ ops' # ops)

BlankCycle ==
    ev.kind \in {"sync_done", "sync_mid", "sync_reg_done"} /\ Blank(ev.data) /\ ~ev.upd

(* C15: a sync cycle whose fetch returns a blank result is a no-op and not *)
(* an error: it makes no registration call, no step of it throws, and it   *)
(* leaves the availability, the registered flag and the warning as they    *)
(* were when its steps began.  Stated for the cycles whose settings step   *)
(* does not throw on a missing wireless or mcu block.                      *)
C15_BlankIsNoOp ==
    (BlankCycle /\ ev.threw # "settings") =>
        /\ ev.reg = 0
        /\ ev.threw = "none"
        /\ available = ev.pre.available
        /\ registered = ev.pre.registered
        /\ warning = ev.pre.warning

\* a cycle has completed without exception over a payload whose firmware is supported
\* (firmType absent or 'WF-RAC') on a device that was registered or registrable
ConditionGone ==
    /\ CycleEnd /\ NonBlank /\ ev.threw = "none"
    /\ ~UnsupportedFirmware(ev.data.data)
    /\ ev.acct.ran
    /\ (ev.acct.registered \/ ev.acct.accounts \in 1..(MaxAccounts - 1))

(* C16: a policy warning is cleared once its condition no longer holds: at *)
(* the end of a sync cycle that completes without exception over a payload *)
(* whose firmType is absent or 'WF-RAC', on a device that is registered or *)
(* registrable, no warning is set, whatever warning was set before.        *)
C16_WarningCleared == ConditionGone => warning = NoWarning

\* such a cycle has ended on a device that had a warning when the cycle began
C16_Witness == ConditionGone /\ ev.pre.warning # NoWarning /\ warning = NoWarning

(* C17: deregistration on teardown is best-effort: once onUninit has       *)
(* settled, whether its deleteAccountInfo call succeeded or failed, the    *)
(* teardown is complete: client, rawContents and controlState are cleared. *)
C17_TeardownCompletes ==
    (phase = "destroyed" /\ InFlight = {}) =>
        (~client /\ contents = Null /\ airconStat = Null)

(* C18: the registered flag agrees with the device: in every initialized   *)
(* session, whenever registered is true the last successful account call   *)
(* sent to the device was updateAccountInfo and not deleteAccountInfo, so   *)
(* a session that follows a teardown is registered again before it is      *)
(* taken as registered.                                                    *)
C18_RegisteredAgrees == (phase = "ready" /\ registered) => deviceAccount

\* the control-state field a capability is written from
FieldOf(c) == IF c = "onoff" THEN "operation" ELSE "airFlow"

(* C19: every capability value a sync cycle publishes is the mapped value  *)
(* of the same field in a payload the device reported, namely the payload  *)
(* that last replaced controlState; a value merged locally for a send that *)
(* failed is not published by a later cycle.  Stated for the cycles the    *)
(* timer or discovery starts.                                              *)
C19_PublishedFromDevice ==
    (Processed /\ ~ev.upd) =>
        \A c \in DOMAIN ev.caps :
            /\ reported # Null
            /\ FieldOf(c) \in DOMAIN reported
            /\ ev.caps[c] = CapValue(FieldOf(c), reported[FieldOf(c)])

(* C20: a sync cycle writes a value only to a capability the device has:  *)
(* every capability it calls setCapabilityValue for, the outdoor           *)
(* temperature 'measure_temperature.outdoor' included, is one for which    *)
(* hasCapability is true.                                                  *)
C20_WritesOwnCapabilities == Processed => DOMAIN ev.caps \subseteq capabilities

====
